---------------------------- MODULE Spec2Model ----------------------------
(***************************************************************************)
(* The persistent schema of paypal_express_checkout (models.py): Item,     *)
(* PaymentTransaction, PurchasedItem and PaymentTransactionError rows, the *)
(* auth.User rows they point to, and the create / save / delete / query    *)
(* operations the ORM performs on them as the field declarations dictate.  *)
(*                                                                         *)
(* Text is a sequence of one-character strings, so that lengths, ordering  *)
(* and formatting are computed.  A Decimal is [neg, coef, places]: the     *)
(* number (-1)^neg * coef * 10^(-places).  The database is one that        *)
(* enforces the declared column types (varchar(n), numeric(p, s), foreign  *)
(* keys, the >= 0 check of a positive integer column).                     *)
(***************************************************************************)
EXTENDS Integers, Sequences, FiniteSets, TLC

VARIABLES users, items, transactions, purchased, errors, nextpk, now, last

vars == <<users, items, transactions, purchased, errors, nextpk, now, last>>

-----------------------------------------------------------------------------
(* Bounds of the model *)

MaxUsers == 2
MaxItems == 1
MaxTransactions == 1
MaxPurchased == 1
MaxErrors == 1
MaxClock == 2
MaxListed == 2
MaxCatalog == 2

(* Declared column sizes *)

NameMaxLength == 2048
DescriptionMaxLength == 4000
ValueMaxDigits == 8
ValueDecimalPlaces == 2
TransactionIdMaxLength == 32
StatusMaxLength == 16

(* The value of a nullable column that holds nothing *)
NULL == -1

-----------------------------------------------------------------------------
(* Text *)

Alphabet ==
    << " ", "$", "-", ".", "0", "1", "2", "3", "4", "5", "6", "7", "8", "9",
       "=", "@", "A", "B", "C", "E", "F", "[", "]", "a", "b", "c", "d", "e", "f", "g",
       "i", "k", "l", "m", "n", "o", "p", "r", "s", "t", "u", "x", "{", "}" >>

Ord(c) == CHOOSE i \in 1..Len(Alphabet) : Alphabet[i] = c

Min(a, b) == IF a <= b THEN a ELSE b

\* s < t in the order of a varchar column (character by character, a proper
\* prefix first)
TextLess(s, t) ==
    \E i \in 1..(Min(Len(s), Len(t)) + 1) :
        /\ \A j \in 1..(i - 1) : s[j] = t[j]
        /\ \/ i = Len(s) + 1 /\ i <= Len(t)
           \/ i <= Len(s) /\ i <= Len(t) /\ Ord(s[i]) < Ord(t[i])

Rep(c, n) == [i \in 1..n |-> c]

DigitChar(d) == Alphabet[Ord("0") + d]

RECURSIVE IntDigits(_)
IntDigits(n) == IF n < 10 THEN <<DigitChar(n)>>
                ELSE IntDigits(n \div 10) \o <<DigitChar(n % 10)>>

\* str(n) of an int
IntStr(n) == IF n < 0 THEN <<"-">> \o IntDigits(0 - n) ELSE IntDigits(n)

RECURSIVE Pow10(_)
Pow10(n) == IF n = 0 THEN 1 ELSE 10 * Pow10(n - 1)

\* str(d) of a Decimal with a non-positive exponent
DecimalStr(d) ==
    LET digits == IntDigits(d.coef)
        left   == Len(digits) - d.places
        sign   == IF d.neg THEN <<"-">> ELSE <<>>
    IN  IF d.places = 0 THEN sign \o digits
        ELSE IF left > 0
             THEN sign \o SubSeq(digits, 1, left) \o <<".">>
                       \o SubSeq(digits, left + 1, Len(digits))
             ELSE sign \o <<"0", ".">> \o Rep("0", 0 - left) \o digits

\* The number a Decimal denotes, in units of 10^(-p), for p >= d.places
Scaled(d, p) == (IF d.neg THEN -1 ELSE 1) * d.coef * Pow10(p - d.places)

Max(a, b) == IF a >= b THEN a ELSE b

\* Decimal.__eq__: equality of the numbers, whatever the exponents
DecimalEq(a, b) ==
    LET p == Max(a.places, b.places) IN Scaled(a, p) = Scaled(b, p)

\* template.format(*args) for a template of literal text and {n} fields
RECURSIVE Format(_, _)
Format(tpl, args) ==
    IF tpl = <<>> THEN <<>>
    ELSE IF Head(tpl) = "{"
         THEN args[(Ord(tpl[2]) - Ord("0")) + 1] \o Format(SubSeq(tpl, 4, Len(tpl)), args)
         ELSE <<Head(tpl)>> \o Format(Tail(tpl), args)


-----------------------------------------------------------------------------
(* Column types, as the database enforces them *)

\* varchar(max_length)
CharFieldOk(text, max_length) == Len(text) <= max_length

\* Decimal.quantize to the given number of places, ROUND_HALF_EVEN
Quantize(d, places) ==
    IF d.places <= places
    THEN [neg |-> d.neg, coef |-> d.coef * Pow10(places - d.places), places |-> places]
    ELSE LET unit == Pow10(d.places - places)
             q    == d.coef \div unit
             r    == d.coef % unit
             up   == 2 * r > unit \/ (2 * r = unit /\ q % 2 = 1)
         IN  [neg |-> d.neg, coef |-> IF up THEN q + 1 ELSE q, places |-> places]

\* DecimalField(max_digits=8, decimal_places=2): the value is quantized to
\* decimal_places under a precision of max_digits, which fails when the
\* result needs more digits
DecimalFieldOk(d) == Quantize(d, ValueDecimalPlaces).coef < Pow10(ValueMaxDigits)

\* A faulty variant: a column that keeps one decimal place less
DecimalFieldToDbOnePlace(d) ==
    LET q == Quantize(Quantize(d, ValueDecimalPlaces - 1), ValueDecimalPlaces)
    IN  [neg |-> q.neg /\ q.coef # 0, coef |-> q.coef, places |-> q.places]

\* What the numeric(8, 2) column then holds and gives back (no negative zero)
DecimalFieldToDb(d) ==
    LET q == Quantize(d, ValueDecimalPlaces)
    IN  [neg |-> q.neg /\ q.coef # 0, coef |-> q.coef, places |-> q.places]

\* A faulty variant: no foreign-key constraint on the column
ForeignKeyUnchecked(id, table, nullable) == TRUE

\* ForeignKey(...): the id is a row of the referenced table (or NULL when the
\* column is declared null=True)
ForeignKeyOk(id, table, nullable) ==
    (nullable /\ id = NULL) \/ id \in DOMAIN table

\* A faulty variant: a plain integer column
PositiveIntegerUnchecked(n, nullable) == TRUE

\* PositiveIntegerField: the column's CHECK (n >= 0)
PositiveIntegerOk(n, nullable) ==
    (nullable /\ n = NULL) \/ (n # NULL /\ n >= 0)

\* The framework's table of content types, which this application never writes
ContentTypes == {1}

Restrict(f, S) == [x \in S |-> f[x]]

Insert(table, pk, row) == [x \in DOMAIN table \cup {pk} |-> IF x = pk THEN row ELSE table[x]]

-----------------------------------------------------------------------------
(* Item *)

ItemError(name, description, value) ==
    IF ~DecimalFieldOk(value) THEN "InvalidOperation"
    ELSE IF ~CharFieldOk(name, NameMaxLength) \/ ~CharFieldOk(description, DescriptionMaxLength)
         THEN "DataError"
         ELSE "none"

ItemRow(name, description, value) ==
    [name |-> name, description |-> description, value |-> DecimalFieldToDb(value)]

\* Item.objects.get(pk=pk)
LoadItem(pk) == items[pk]

ItemTemplate == <<"{", "0", "}", " ", "-", " ", "{", "1", "}", " ", "$">>

\* Item.__unicode__
Item_unicode(item) == Format(ItemTemplate, <<item.name, DecimalStr(item.value)>>)

\* Item(name=..., description=..., value=...).save()
CreateItem(name, description, value) ==
    LET pk  == nextpk.item + 1
        err == ItemError(name, description, value)
    IN  /\ items' = IF err = "none" THEN Insert(items, pk, ItemRow(name, description, value))
                    ELSE items
        /\ nextpk' = IF err = "none" THEN [nextpk EXCEPT !.item = pk] ELSE nextpk
        /\ last' = [op |-> "create_item", pk |-> pk, name |-> name,
                    description |-> description, value |-> value, error |-> err]
        /\ UNCHANGED <<users, transactions, purchased, errors, now>>

\* item = Item.objects.get(pk=pk); item.name, ... = ...; item.save()
UpdateItem(pk, name, description, value) ==
    LET err == ItemError(name, description, value)
    IN  /\ pk \in DOMAIN items
        /\ items' = IF err = "none" THEN Insert(items, pk, ItemRow(name, description, value))
                    ELSE items
        /\ last' = [op |-> "update_item", pk |-> pk, name |-> name,
                    description |-> description, value |-> value, error |-> err]
        /\ UNCHANGED <<users, transactions, purchased, errors, nextpk, now>>

\* The PurchasedItem rows the delete of an Item collects (item = ForeignKey(Item))
PurchasedOfItem(pk) == {p \in DOMAIN purchased : purchased[p].item = pk}

\* item.delete()
DeleteItem(pk) ==
    /\ pk \in DOMAIN items
    /\ items' = Restrict(items, DOMAIN items \ {pk})
    /\ purchased' = Restrict(purchased, DOMAIN purchased \ PurchasedOfItem(pk))
    /\ last' = [op |-> "delete_item", pk |-> pk, collected |-> PurchasedOfItem(pk),
                error |-> "none"]
    /\ UNCHANGED <<users, transactions, errors, nextpk, now>>

-----------------------------------------------------------------------------
(* auth.User, as far as this schema reads it *)

CreateUser(email) ==
    LET pk == nextpk.user + 1
    IN  /\ users' = Insert(users, pk, [email |-> email])
        /\ nextpk' = [nextpk EXCEPT !.user = pk]
        /\ last' = [op |-> "create_user", pk |-> pk, error |-> "none"]
        /\ UNCHANGED <<items, transactions, purchased, errors, now>>

\* The PaymentTransaction rows the delete of a User collects
TransactionsOfUser(pk) == {t \in DOMAIN transactions : transactions[t].user = pk}

\* A faulty variant: deleting a transaction leaves its purchases
PurchasedOfTransactionsNone(ts) == {}

\* The PurchasedItem rows the delete of PaymentTransactions collects
PurchasedOfTransactions(ts) == {p \in DOMAIN purchased : purchased[p].transaction \in ts}

\* The PurchasedItem rows the delete of a User collects directly
PurchasedOfUser(pk) == {p \in DOMAIN purchased : purchased[p].user = pk}

\* The PaymentTransactionError rows the delete of a User collects
ErrorsOfUser(pk) == {e \in DOMAIN errors : errors[e].user = pk}

\* user.delete(): every ForeignKey to it is declared without on_delete, so
\* the rows that point to it go with it, and the rows that point to those
DeleteUser(pk) ==
    /\ pk \in DOMAIN users
    /\ users' = Restrict(users, DOMAIN users \ {pk})
    /\ transactions' = Restrict(transactions, DOMAIN transactions \ TransactionsOfUser(pk))
    /\ purchased' = Restrict(purchased,
                        DOMAIN purchased \ (PurchasedOfUser(pk)
                                            \cup PurchasedOfTransactions(TransactionsOfUser(pk))))
    /\ errors' = Restrict(errors, DOMAIN errors \ ErrorsOfUser(pk))
    /\ last' = [op |-> "delete_user", pk |-> pk,
                collected |-> PurchasedOfUser(pk)
                              \cup PurchasedOfTransactions(TransactionsOfUser(pk)),
                error |-> "none"]
    /\ UNCHANGED <<items, nextpk, now>>

-----------------------------------------------------------------------------
(* PaymentTransaction *)

\* constants.STATUS_CHOICES: the values a status may take
STATUS_CHOICES ==
    { <<"p", "e", "n", "d", "i", "n", "g">>,
      <<"c", "o", "m", "p", "l", "e", "t", "e", "d">>,
      <<"f", "a", "i", "l", "e", "d">> }

\* DateTimeField.pre_save: the value the save writes, given the value the
\* instance carries
DateTimePreSave(auto_now, auto_now_add, add, current) ==
    IF auto_now \/ (auto_now_add /\ add) THEN now ELSE current

\* A faulty variant: auto_now_add alone
TransactionDateAddOnly(add, current) == DateTimePreSave(FALSE, TRUE, add, current)

\* date = DateTimeField(auto_now=True, auto_now_add=True)
TransactionDate(add, current) == DateTimePreSave(TRUE, TRUE, add, current)

\* A faulty variant: a status field declared without choices
TransactionCleanNoChoices(f) ==
    /\ ForeignKeyOk(f.user, users, FALSE)
    /\ f.transaction_id # <<>> /\ CharFieldOk(f.transaction_id, TransactionIdMaxLength)
    /\ f.status # <<>> /\ CharFieldOk(f.status, StatusMaxLength)
    /\ DecimalFieldOk(f.value) /\ f.value.places <= ValueDecimalPlaces

\* Model.full_clean() on a PaymentTransaction: an existing user, no blank
\* text, the declared lengths and digits, and a status among the choices
TransactionClean(f) ==
    /\ ForeignKeyOk(f.user, users, FALSE)
    /\ f.transaction_id # <<>> /\ CharFieldOk(f.transaction_id, TransactionIdMaxLength)
    /\ f.status # <<>> /\ CharFieldOk(f.status, StatusMaxLength)
    /\ f.status \in STATUS_CHOICES
    /\ DecimalFieldOk(f.value) /\ f.value.places <= ValueDecimalPlaces

ContentTypeTable == [c \in ContentTypes |-> TRUE]

\* The outcome of saving a PaymentTransaction; validate says whether the
\* caller runs full_clean() first, which save() itself never does
TransactionError(validate, f) ==
    IF validate /\ ~TransactionClean(f)
    THEN "ValidationError"
    ELSE IF ~DecimalFieldOk(f.value) THEN "InvalidOperation"
    ELSE IF \/ ~CharFieldOk(f.transaction_id, TransactionIdMaxLength)
            \/ ~CharFieldOk(f.status, StatusMaxLength)
         THEN "DataError"
    ELSE IF \/ ~ForeignKeyOk(f.user, users, FALSE)
            \/ ~ForeignKeyOk(f.content_type, ContentTypeTable, TRUE)
            \/ ~PositiveIntegerOk(f.object_id, TRUE)
         THEN "IntegrityError"
    ELSE "none"

TransactionRow(f, date) ==
    [user |-> f.user, content_type |-> f.content_type, object_id |-> f.object_id,
     date |-> date, transaction_id |-> f.transaction_id,
     value |-> DecimalFieldToDb(f.value), status |-> f.status]

\* PaymentTransaction.__unicode__
Transaction_unicode(t) == t.transaction_id

\* PaymentTransaction(**f).save(), after f.full_clean() when validate
CreatePaymentTransaction(validate, f) ==
    LET pk  == nextpk.transaction + 1
        err == TransactionError(validate, f)
    IN  /\ transactions' =
              IF err = "none"
              THEN Insert(transactions, pk, TransactionRow(f, TransactionDate(TRUE, NULL)))
              ELSE transactions
        /\ nextpk' = IF err = "none" THEN [nextpk EXCEPT !.transaction = pk] ELSE nextpk
        /\ last' = [op |-> "create_transaction", pk |-> pk, validate |-> validate,
                    fields |-> f, at |-> now, error |-> err]
        /\ UNCHANGED <<users, items, purchased, errors, now>>

\* t = PaymentTransaction.objects.get(pk=pk); t.status = status; t.save()
UpdatePaymentTransactionStatus(validate, pk, status) ==
    LET old == transactions[pk]
        f   == [old EXCEPT !.status = status]
        err == TransactionError(validate, f)
    IN  /\ pk \in DOMAIN transactions
        /\ transactions' =
              IF err = "none"
              THEN Insert(transactions, pk, TransactionRow(f, TransactionDate(FALSE, old.date)))
              ELSE transactions
        /\ last' = [op |-> "update_transaction", pk |-> pk, validate |-> validate,
                    fields |-> f, at |-> now, error |-> err]
        /\ UNCHANGED <<users, items, purchased, errors, nextpk, now>>

\* t.delete()
DeletePaymentTransaction(pk) ==
    /\ pk \in DOMAIN transactions
    /\ transactions' = Restrict(transactions, DOMAIN transactions \ {pk})
    /\ purchased' = Restrict(purchased, DOMAIN purchased \ PurchasedOfTransactions({pk}))
    /\ last' = [op |-> "delete_transaction", pk |-> pk,
                collected |-> PurchasedOfTransactions({pk}), error |-> "none"]
    /\ UNCHANGED <<users, items, errors, nextpk, now>>

\* A faulty variant: oldest first
OrderingAscending == << <<"date", FALSE>>, <<"transaction_id", FALSE>> >>

\* Meta.ordering = ['-date', 'transaction_id']: <<field, descending>>
Ordering == << <<"date", TRUE>>, <<"transaction_id", FALSE>> >>

FieldLess(field, a, b) ==
    IF field = "date" THEN a.date < b.date
    ELSE TextLess(a.transaction_id, b.transaction_id)

\* a sorts strictly before b under one ORDER BY term
TermBefore(term, a, b) ==
    IF term[2] THEN FieldLess(term[1], b, a) ELSE FieldLess(term[1], a, b)

\* a sorts strictly before b under ORDER BY terms
RECURSIVE RowBefore(_, _, _)
RowBefore(terms, a, b) ==
    /\ terms # <<>>
    /\ \/ TermBefore(Head(terms), a, b)
       \/ ~TermBefore(Head(terms), b, a) /\ RowBefore(Tail(terms), a, b)

\* The results a query in the default ordering may give: every row once, no
\* row after one it sorts strictly before (rows that sort alike come in any
\* order)
DefaultOrderings ==
    LET n == Cardinality(DOMAIN transactions)
    IN  { s \in [1..n -> DOMAIN transactions] :
            /\ \A i, j \in 1..n : i # j => s[i] # s[j]
            /\ \A i, j \in 1..n :
                 i < j => ~RowBefore(Ordering, transactions[s[j]], transactions[s[i]]) }

\* list(PaymentTransaction.objects.all())
ListTransactions ==
    /\ \E s \in DefaultOrderings :
          last' = [op |-> "list_transactions",
                   rows |-> [i \in 1..Len(s) |-> transactions[s[i]]], error |-> "none"]
    /\ UNCHANGED <<users, items, transactions, purchased, errors, nextpk, now>>

\* Time passes
Tick ==
    /\ now < MaxClock
    /\ now' = now + 1
    /\ UNCHANGED <<users, items, transactions, purchased, errors, nextpk, last>>

-----------------------------------------------------------------------------
(* PurchasedItem *)

\* The outcome of saving a PurchasedItem row
PurchasedError(f) ==
    IF \/ ~ForeignKeyOk(f.user, users, FALSE)
       \/ ~ForeignKeyOk(f.transaction, transactions, FALSE)
       \/ ~ForeignKeyOk(f.item, items, FALSE)
       \/ ~PositiveIntegerOk(f.quantity, FALSE)
    THEN "IntegrityError"
    ELSE "none"

\* PurchasedItem(user_id=..., transaction_id=..., item_id=..., quantity=...).save()
CreatePurchasedItem(f) ==
    LET pk  == nextpk.purchased + 1
        err == PurchasedError(f)
    IN  /\ purchased' = IF err = "none" THEN Insert(purchased, pk, f) ELSE purchased
        /\ nextpk' = IF err = "none" THEN [nextpk EXCEPT !.purchased = pk] ELSE nextpk
        /\ last' = [op |-> "create_purchased", pk |-> pk, fields |-> f, error |-> err]
        /\ UNCHANGED <<users, items, transactions, errors, now>>

\* p = PurchasedItem.objects.get(pk=pk); setattr(p, field, value); p.save()
UpdatePurchasedItem(pk, field, value) ==
    LET f   == [purchased[pk] EXCEPT ![field] = value]
        err == PurchasedError(f)
    IN  /\ pk \in DOMAIN purchased
        /\ purchased' = IF err = "none" THEN Insert(purchased, pk, f) ELSE purchased
        /\ last' = [op |-> "update_purchased", pk |-> pk, fields |-> f, error |-> err]
        /\ UNCHANGED <<users, items, transactions, errors, nextpk, now>>

\* p.delete()
DeletePurchasedItem(pk) ==
    /\ pk \in DOMAIN purchased
    /\ purchased' = Restrict(purchased, DOMAIN purchased \ {pk})
    /\ last' = [op |-> "delete_purchased", pk |-> pk, error |-> "none"]
    /\ UNCHANGED <<users, items, transactions, errors, nextpk, now>>

\* A faulty variant: the user and the item change places
PurchasedItemArgsSwapped(p) ==
    << IntStr(p.quantity), users[p.user].email, Item_unicode(items[p.item]),
       Transaction_unicode(transactions[p.transaction]) >>

\* The arguments of the format call in PurchasedItem.__unicode__
PurchasedItemArgs(p) ==
    << IntStr(p.quantity), Item_unicode(items[p.item]), users[p.user].email,
       Transaction_unicode(transactions[p.transaction]) >>

PurchasedItemTemplate ==
    <<"{", "0", "}", " ", "{", "1", "}", " ", "o", "f", " ", "{", "2", "}", " ",
      "[", "{", "3", "}", "]">>

\* PurchasedItem.__unicode__
PurchasedItem_unicode(p) == Format(PurchasedItemTemplate, PurchasedItemArgs(p))

-----------------------------------------------------------------------------
(* PaymentTransactionError *)

\* A faulty variant: the date follows every save
ErrorDateEverySave(add, current) == DateTimePreSave(TRUE, TRUE, add, current)

\* date = DateTimeField(auto_now_add=True)
ErrorDate(add, current) == DateTimePreSave(FALSE, TRUE, add, current)

\* The declaration of transaction ends in a comma: the class attribute is a
\* one-element tuple holding the ForeignKey, not a field, so the table has no
\* such column and the constructor takes no such keyword
ErrorFields == {"date", "user", "response"}

ErrorError(f) ==
    IF ~ForeignKeyOk(f.user, users, FALSE) THEN "IntegrityError" ELSE "none"

\* What an instance gives under .transaction: the class attribute
ErrorClassTransaction == [kind |-> "tuple", id |-> NULL]

\* PaymentTransactionError.objects.get(pk=pk)
LoadError(pk) ==
    [date |-> errors[pk].date, user |-> errors[pk].user, response |-> errors[pk].response,
     transaction |-> ErrorClassTransaction]

\* Creating an error record for a user and a response, with a transaction
\* (NULL for none) given either as a constructor keyword or by assigning the
\* attribute before save()
CreatePaymentTransactionError(user, response, transaction, keyword) ==
    LET pk  == nextpk.error + 1
        f   == [user |-> user, response |-> response]
        err == IF transaction # NULL /\ keyword /\ "transaction" \notin ErrorFields
               THEN "TypeError"
               ELSE ErrorError(f)
    IN  /\ errors' = IF err = "none"
                     THEN Insert(errors, pk, [date |-> ErrorDate(TRUE, NULL), user |-> user,
                                              response |-> response])
                     ELSE errors
        /\ nextpk' = IF err = "none" THEN [nextpk EXCEPT !.error = pk] ELSE nextpk
        /\ last' = [op |-> "create_error", pk |-> pk, user |-> user, response |-> response,
                    transaction |-> transaction, keyword |-> keyword, at |-> now,
                    error |-> err]
        /\ UNCHANGED <<users, items, transactions, purchased, now>>

\* e = PaymentTransactionError.objects.get(pk=pk); e.user_id = ...;
\* e.response = ...; e.save()
UpdatePaymentTransactionError(pk, user, response) ==
    LET old == errors[pk]
        err == ErrorError([user |-> user, response |-> response])
    IN  /\ pk \in DOMAIN errors
        /\ errors' = IF err = "none"
                     THEN Insert(errors, pk, [date |-> ErrorDate(FALSE, old.date),
                                              user |-> user, response |-> response])
                     ELSE errors
        /\ last' = [op |-> "update_error", pk |-> pk, user |-> user, response |-> response,
                    at |-> now, error |-> err]
        /\ UNCHANGED <<users, items, transactions, purchased, nextpk, now>>

-----------------------------------------------------------------------------
(* The empty database *)

Init ==
    /\ users = <<>>
    /\ items = <<>>
    /\ transactions = <<>>
    /\ purchased = <<>>
    /\ errors = <<>>
    /\ nextpk = [user |-> 0, item |-> 0, transaction |-> 0, purchased |-> 0, error |-> 0]
    /\ now = 0
    /\ last = [op |-> "none", error |-> "none"]

-----------------------------------------------------------------------------
(* Sample values *)

Email1 == <<"a", "@", "b", ".", "c">>
Email2 == <<"b", "@", "b", ".", "c">>
Name1 == <<"b", "o", "o", "k">>
Name2 == <<"p", "e", "n">>
Tid1 == <<"E", "C", "-", "1">>
Tid2 == <<"E", "C", "-", "2">>
Tid3 == <<"E", "C", "-", "1", "0">>
Pending == <<"p", "e", "n", "d", "i", "n", "g">>
Completed == <<"c", "o", "m", "p", "l", "e", "t", "e", "d">>
Dec(neg, coef, places) == [neg |-> neg, coef |-> coef, places |-> places]

UserIds == 1..MaxUsers
ItemIds == 1..MaxItems
TransactionIds == 1..MaxTransactions
PurchasedIds == 1..MaxPurchased
ErrorIds == 1..MaxErrors

TransactionFields(user, tid, status) ==
    [user |-> user, content_type |-> NULL, object_id |-> NULL, transaction_id |-> tid,
     value |-> Dec(FALSE, 1250, 2), status |-> status]

-----------------------------------------------------------------------------
(* The store: users, items, transactions and purchases come and go *)

Quantities == {-1, 0}

PurchasedFields ==
    [user : UserIds, transaction : TransactionIds, item : ItemIds, quantity : Quantities]

Next ==
    \/ nextpk.user < MaxUsers /\ CreateUser(Email1)
    \/ \E u \in UserIds : DeleteUser(u)
    \/ nextpk.item < MaxItems /\ CreateItem(Name1, <<>>, Dec(FALSE, 1250, 2))
    \/ \E i \in ItemIds : DeleteItem(i)
    \/ /\ nextpk.transaction < MaxTransactions
       /\ \E u \in UserIds : CreatePaymentTransaction(FALSE, TransactionFields(u, Tid1, Pending))
    \/ \E t \in TransactionIds : DeletePaymentTransaction(t)
    \/ nextpk.purchased < MaxPurchased /\ \E f \in PurchasedFields : CreatePurchasedItem(f)
    \/ \E p \in PurchasedIds, u \in UserIds : UpdatePurchasedItem(p, "user", u)
    \/ \E p \in PurchasedIds, t \in TransactionIds : UpdatePurchasedItem(p, "transaction", t)
    \/ \E p \in PurchasedIds, i \in ItemIds : UpdatePurchasedItem(p, "item", i)
    \/ \E p \in PurchasedIds, q \in Quantities : UpdatePurchasedItem(p, "quantity", q)
    \/ \E p \in PurchasedIds : DeletePurchasedItem(p)

Spec == Init /\ [][Next]_vars

\* C1: every stored PurchasedItem references a User, a PaymentTransaction and
\* an Item that exist, in every reachable state, deletions included
C1_NoDanglingReference ==
    \A p \in DOMAIN purchased :
        /\ purchased[p].user \in DOMAIN users
        /\ purchased[p].transaction \in DOMAIN transactions
        /\ purchased[p].item \in DOMAIN items

\* A user was deleted whose transaction carried a purchase, and another user
\* remains
C1_Witness ==
    /\ last.op = "delete_user"
    /\ last.collected # {}
    /\ DOMAIN users # {}

\* C2: a PurchasedItem created with a user, item or transaction that does not
\* exist is rejected with an error and the stored PurchasedItems are unchanged
C2_DanglingCreateRejected ==
    [][ ( /\ last'.op = "create_purchased"
          /\ \/ last'.fields.user \notin DOMAIN users
             \/ last'.fields.transaction \notin DOMAIN transactions
             \/ last'.fields.item \notin DOMAIN items )
        => (last'.error = "IntegrityError" /\ purchased' = purchased) ]_vars

\* A create with a valid quantity and existing item and transaction was
\* rejected because its user does not exist
C2_Witness ==
    /\ last.op = "create_purchased"
    /\ last.error = "IntegrityError"
    /\ last.fields.quantity >= 0
    /\ last.fields.user \notin DOMAIN users
    /\ last.fields.transaction \in DOMAIN transactions
    /\ last.fields.item \in DOMAIN items

\* C8: every stored quantity is an integer >= 0, and a create or update with a
\* negative quantity stores nothing
C8_QuantityNonNegative ==
    /\ \A p \in DOMAIN purchased : purchased[p].quantity \in Nat
    /\ ( /\ last.op \in {"create_purchased", "update_purchased"}
         /\ last.fields.quantity < 0 )
       => last.error # "none"

\* An update to a negative quantity, all references existing, was rejected
C8_Witness ==
    /\ last.op = "update_purchased"
    /\ last.fields.quantity < 0
    /\ last.error = "IntegrityError"
    /\ last.fields.user \in DOMAIN users
    /\ last.fields.transaction \in DOMAIN transactions
    /\ last.fields.item \in DOMAIN items
    /\ purchased[last.pk].quantity = 0

-----------------------------------------------------------------------------
(* Transactions over time, and their default ordering *)

ListedIds == 1..MaxListed

NextOrdering ==
    \/ nextpk.user < 1 /\ CreateUser(Email1)
    \/ /\ nextpk.transaction < MaxListed
       /\ \E tid \in {Tid1, Tid2, Tid3} :
             CreatePaymentTransaction(FALSE, TransactionFields(1, tid, Pending))
    \/ \E t \in ListedIds : UpdatePaymentTransactionStatus(FALSE, t, Completed)
    \/ Tick
    \/ ListTransactions

SpecOrdering == Init /\ [][NextOrdering]_vars

\* C5: the default ordering lists the stored PaymentTransactions with date
\* non-increasing, and records of equal date in ascending transaction_id
C5_DefaultOrdering ==
    last.op = "list_transactions" =>
        /\ Len(last.rows) = Cardinality(DOMAIN transactions)
        /\ \A i, j \in 1..Len(last.rows) :
              i < j =>
                 /\ last.rows[i].date >= last.rows[j].date
                 /\ last.rows[i].date = last.rows[j].date
                    => ~TextLess(last.rows[j].transaction_id, last.rows[i].transaction_id)

\* A listing of two records of one date, "EC-10" before "EC-2"
C5_Witness ==
    /\ last.op = "list_transactions"
    /\ Len(last.rows) = 2
    /\ last.rows[1].date = last.rows[2].date
    /\ last.rows[1].transaction_id = Tid3
    /\ last.rows[2].transaction_id = Tid2

Position(s, pk) == CHOOSE i \in 1..Len(s) : s[i] = pk

-----------------------------------------------------------------------------
(* The status of a transaction, saved with and without validation *)

Statuses == {Pending, Completed, <<"x">>, <<>>, Rep("x", StatusMaxLength + 1)}

NextStatus ==
    \/ nextpk.user < 1 /\ CreateUser(Email1)
    \/ /\ nextpk.transaction < MaxTransactions
       /\ \E v \in BOOLEAN, tid \in {Tid1, Tid2}, st \in Statuses :
             CreatePaymentTransaction(v, TransactionFields(1, tid, st))
    \/ \E v \in BOOLEAN, t \in TransactionIds, st \in Statuses :
          UpdatePaymentTransactionStatus(v, t, st)
    \/ \E t \in TransactionIds : DeletePaymentTransaction(t)
    \/ Tick

SpecStatus == Init /\ [][NextStatus]_vars

\* C7 as stated: the status of every stored PaymentTransaction is one of
\* STATUS_CHOICES, whatever creates and status updates were performed
C7_StatusAmongChoices ==
    \A t \in DOMAIN transactions : transactions[t].status \in STATUS_CHOICES

\* C7 as amended: a create or status update that is validated (full_clean)
\* before the save is rejected with a ValidationError unless its status is
\* among STATUS_CHOICES, so what it stores is among them; a save that is not
\* validated checks no more than the column's 16 characters
C7_ValidatedStatusAmongChoices ==
    /\ ( /\ last.op \in {"create_transaction", "update_transaction"}
         /\ last.validate )
       => /\ last.fields.status \notin STATUS_CHOICES => last.error = "ValidationError"
          /\ last.error = "none"
             => /\ transactions[last.pk].status = last.fields.status
                /\ transactions[last.pk].status \in STATUS_CHOICES
    /\ \A t \in DOMAIN transactions : Len(transactions[t].status) <= StatusMaxLength

\* A validated update to "completed" went through
C7_Witness ==
    /\ last.op = "update_transaction"
    /\ last.validate
    /\ last.error = "none"
    /\ transactions[last.pk].status = Completed

-----------------------------------------------------------------------------
(* Error records *)

Resp1 == <<"A", "C", "k", "=", "F">>
Resp2 == <<>>

NextErrors ==
    \/ nextpk.user < MaxUsers /\ CreateUser(Email1)
    \/ /\ nextpk.transaction < 1
       /\ CreatePaymentTransaction(FALSE, TransactionFields(1, Tid1, Pending))
    \/ /\ nextpk.error < MaxErrors
       /\ \E u \in UserIds, r \in {Resp1, Resp2}, t \in {NULL, 1}, k \in BOOLEAN :
             CreatePaymentTransactionError(u, r, t, k)
    \/ \E e \in ErrorIds, u \in UserIds, r \in {Resp1, Resp2} :
          UpdatePaymentTransactionError(e, u, r)
    \/ Tick

SpecErrors == Init /\ [][NextErrors]_vars

\* C3: the date of a PaymentTransactionError is the time of its first save,
\* and no later save of the record changes it
C3_ErrorDateSetOnce ==
    [][ /\ ( /\ last' # last
             /\ last'.op = "create_error"
             /\ last'.error = "none" )
           => errors'[last'.pk].date = now
        /\ \A e \in DOMAIN errors \cap DOMAIN errors' : errors'[e].date = errors[e].date ]_vars

\* A record was saved with a new response at a later time than its date
C3_Witness ==
    /\ last.op = "update_error"
    /\ last.error = "none"
    /\ errors[last.pk].response = Resp1
    /\ errors[last.pk].date < last.at

\* C4: an error record can be stored with no transaction, and one created
\* with a (stored) transaction has that transaction on the persisted record
C4_TransactionReadBack ==
    ( /\ last.op = "create_error"
      /\ last.user \in DOMAIN users )
    => IF last.transaction = NULL
       THEN last.error = "none"
       ELSE last.transaction \in DOMAIN transactions
            => /\ last.error = "none"
               /\ LoadError(last.pk).transaction
                     = [kind |-> "instance", id |-> last.transaction]

-----------------------------------------------------------------------------
(* Items, written and read back *)

LongName == Rep("x", NameMaxLength)
LongDescription == Rep("d", DescriptionMaxLength)

\* <<name, description, value>>: inside the declared sizes, at them, and one
\* past each
ItemInputs ==
    { <<Name1, <<>>, Dec(FALSE, 1250, 2)>>,
      <<Name2, Name1, Dec(TRUE, 5, 2)>>,
      <<<<>>, <<>>, Dec(FALSE, 0, 2)>>,
      <<Name1, <<>>, Dec(TRUE, 0, 2)>>,
      <<LongName, LongDescription, Dec(FALSE, 99999999, 2)>>,
      <<LongName \o <<"x">>, <<>>, Dec(FALSE, 1250, 2)>>,
      <<Name1, LongDescription \o <<"d">>, Dec(FALSE, 1250, 2)>>,
      <<Name1, <<>>, Dec(FALSE, 100000000, 2)>>,
      <<Name1, <<>>, Dec(FALSE, 15, 1)>>,
      <<Name2, <<>>, Dec(FALSE, 1255, 3)>> }

NextItems ==
    \/ nextpk.item < MaxCatalog /\ \E in \in ItemInputs : CreateItem(in[1], in[2], in[3])
    \/ \E i \in 1..MaxCatalog, in \in ItemInputs : UpdateItem(i, in[1], in[2], in[3])
    \/ \E i \in 1..MaxCatalog : DeleteItem(i)

SpecItems == Init /\ [][NextItems]_vars

\* C9: an Item created with a name of at most 2048 characters, a description
\* of at most 4000 and a value of two decimal places and at most eight digits
\* is stored, and read back it has that name, description and value
C9_ItemRoundTrip ==
    ( /\ last.op = "create_item"
      /\ Len(last.name) <= 2048
      /\ Len(last.description) <= 4000
      /\ last.value.places = 2
      /\ last.value.coef <= 99999999 )
    => /\ last.error = "none"
       /\ LoadItem(last.pk).name = last.name
       /\ LoadItem(last.pk).description = last.description
       /\ DecimalEq(LoadItem(last.pk).value, last.value)
       /\ LoadItem(last.pk).value.places = 2

\* An item at every limit was created: 2048 and 4000 characters, 999999.99
C9_Witness ==
    /\ last.op = "create_item"
    /\ last.error = "none"
    /\ Len(items[last.pk].name) = 2048
    /\ Len(items[last.pk].description) = 4000
    /\ items[last.pk].value = Dec(FALSE, 99999999, 2)

-----------------------------------------------------------------------------
(* Labels *)

LabelQuantities == {0, 3, 12}

NextLabels ==
    \/ nextpk.user < 1 /\ \E e \in {Email1, Email2} : CreateUser(e)
    \/ /\ nextpk.item < 1
       /\ \E n \in {Name1, Name2}, v \in {Dec(FALSE, 1250, 2), Dec(TRUE, 5, 2), Dec(FALSE, 7, 0)} :
             CreateItem(n, <<>>, v)
    \/ /\ nextpk.transaction < 1
       /\ \E tid \in {Tid1, Tid3} :
             CreatePaymentTransaction(FALSE, TransactionFields(1, tid, Pending))
    \/ /\ nextpk.purchased < MaxPurchased
       /\ \E q \in LabelQuantities :
             CreatePurchasedItem([user |-> 1, transaction |-> 1, item |-> 1, quantity |-> q])
    \/ \E p \in PurchasedIds, q \in LabelQuantities : UpdatePurchasedItem(p, "quantity", q)

SpecLabels == Init /\ [][NextLabels]_vars

=============================================================================
